---- MODULE Spec2Model ----
\* RudyAIBot: the query orchestrator (src/src/pipeline.py), the chat front end
\* (src/src/bot.py), the ingestion job (src/src/ingestion.py) and the evaluation
\* script (src/tests/evaluation/evaluate_rag.py) as one state machine.  A text is a sequence of characters (one-character strings; an emoji
\* is written as one element such as "(hourglass)").
EXTENDS Naturals, Sequences, FiniteSets, TLC

VARIABLES environ, fs, disk, rag_pipeline, phase, runs, last, storage_at_init, eval

vars == <<environ, fs, disk, rag_pipeline, phase, runs, last, storage_at_init, eval>>

-----------------------------------------------------------------------------
\* Bounds of the model.

\* Answers of the generative client span up to MaxChunks full platform messages.
MaxChunks == 2

\* Platform API calls of one handler run that may fail are numbered 1..MaxCalls.
MaxCalls == 3

\* Files under the source directory.
MaxFiles == 1

\* Runs of build_index.
MaxRuns == 2

\* Chunks the splitter makes of one file.
ChunksPerFile == 3

\* Points a failing pipeline.run may have written before it failed.
MaxPartial == 1

\* Items of the evaluation's dataset.
MaxItems == 2

\* Quota responses in a row the generative service gives one question before
\* its quota resets.
MaxQuota == 2

-----------------------------------------------------------------------------
\* Program constants.

\* bot.py:156  max_length = 4096
max_length == 4096

\* pipeline.py:125  "retriever": {..., "k": 5}
K == 5

-----------------------------------------------------------------------------
\* String literals of the program, character by character.

QUOTA_MSG ==
    <<"(hourglass)"," ","Q","u","o","t","a"," ","e","x","c","e","e","d","e","d","."," ",
      "P","l","e","a","s","e"," ","w","a","i","t"," ","1","0","-","2","0"," ","s","e","c",
      "o","n","d","s"," ","a","n","d"," ","t","r","y"," ","a","g","a","i","n",".">>

API_ERROR_PREFIX ==
    <<"A","P","I"," ","E","r","r","o","r",":"," ">>

GENERIC_MSG ==
    <<"(cross)"," ","I","'","m"," ","s","o","r","r","y",","," ","I"," ","e","n","c","o",
      "u","n","t","e","r","e","d"," ","a","n"," ","e","r","r","o","r",".">>

NOT_INITIALIZED_MSG ==
    <<"(warning)"," ","S","i","s","t","e","m","a"," ","R","A","G"," ","n","o","n"," ","i",
      "n","i","z","i","a","l","i","z","z","a","t","o","."," ","I","m","p","o","s","s","i",
      "b","i","l","e"," ","r","i","s","p","o","n","d","e","r","e",".">>

HANDLER_ERROR_MSG ==
    <<"(sweat)"," ","S","c","u","s","a",","," ","s","i"," ","e"," ","v","e","r","i","f",
      "i","c","a","t","o"," ","u","n"," ","e","r","r","o","r","e"," ","n","e","l"," ","p",
      "r","o","c","e","s","s","a","r","e"," ","l","a"," ","t","u","a"," ","r","i","c","h",
      "i","e","s","t","a",".">>

KB_SUCCESS_MSG ==
    <<"K","n","o","w","l","e","d","g","e"," ","b","a","s","e"," ","u","p","d","a","t","e",
      "d"," ","s","u","c","c","e","s","s","f","u","l","l","y","!">>

KB_FAILURE_MSG ==
    <<"E","r","r","o","r"," ","u","p","d","a","t","i","n","g"," ","k","n","o","w","l","e",
      "d","g","e"," ","b","a","s","e",".">>

STR_429 ==
    <<"4","2","9">>

STR_RESOURCE_EXHAUSTED ==
    <<"R","E","S","O","U","R","C","E","_","E","X","H","A","U","S","T","E","D">>

STR_QUOTA_ERROR ==
    <<"4","2","9"," ","R","E","S","O","U","R","C","E","_","E","X","H","A","U","S","T","E",
      "D">>

STR_BAD_REQUEST ==
    <<"4","0","0"," ","I","N","V","A","L","I","D","_","A","R","G","U","M","E","N","T">>

STR_QUOTA_STATUS_ONLY ==
    <<"R","E","S","O","U","R","C","E","_","E","X","H","A","U","S","T","E","D",":"," ","q",
      "u","o","t","a">>

STR_UNAVAILABLE ==
    <<"5","0","3"," ","U","N","A","V","A","I","L","A","B","L","E">>

STR_NOT_FOUND ==
    <<"C","o","l","l","e","c","t","i","o","n"," ","n","o","t"," ","f","o","u","n","d">>


WELCOME_HEAD ==
    <<"C","i","a","o"," ">>

WELCOME_TAIL ==
    <<"!"," ","(wave)","\n","\n","S","o","n","o"," ","R","u","d","y","A","I","B","o","t",
      ","," ","i","l"," ","t","u","o"," ","a","s","s","i","s","t","e","n","t","e"," ","v",
      "i","r","t","u","a","l","e"," ","p","e","r"," ","l","'","O","r","a","t","o","r","i",
      "o",".","\n","P","o","s","s","o"," ","r","i","s","p","o","n","d","e","r","e"," ",
      "a","l","l","e"," ","t","u","e"," ","d","o","m","a","n","d","e"," ","r","i","g","u",
      "a","r","d","a","n","t","i"," ","r","e","g","o","l","a","m","e","n","t","i",","," ",
      "o","r","a","r","i"," ","e"," ","a","t","t","i","v","i","t","a",","," ","b","a","s",
      "a","n","d","o","m","i"," ","s","u","i"," ","d","o","c","u","m","e","n","t","i"," ",
      "u","f","f","i","c","i","a","l","i",".","\n","\n","P","r","o","v","a"," ","a"," ",
      "c","h","i","e","d","e","r","m","i"," ","q","u","a","l","c","o","s","a","!"," ","E",
      "s","e","m","p","i","o",":","\n","(speaking)"," ","'","Q","u","a","l","i"," ","s",
      "o","n","o"," ","g","l","i"," ","o","r","a","r","i"," ","d","i"," ","a","p","e","r",
      "t","u","r","a","?","'","\n","(speaking)"," ","'","C","o","m","e"," ","f","u","n",
      "z","i","o","n","a","n","o"," ","l","e"," ","i","s","c","r","i","z","i","o","n","i",
      "?","'">>

HELP_TEXT ==
    <<"(robot)"," ","*","*","G","u","i","d","a"," ","R","a","p","i","d","a","*","*","\n",
      "\n","B","a","s","t","a"," ","s","c","r","i","v","e","r","m","i"," ","u","n","a",
      " ","d","o","m","a","n","d","a"," ","i","n"," ","l","i","n","g","u","a","g","g","i",
      "o"," ","n","a","t","u","r","a","l","e"," ","e"," ","c","e","r","c","h","e","r","o",
      " ","l","a"," ","r","i","s","p","o","s","t","a"," ","n","e","i"," ","d","o","c","u",
      "m","e","n","t","i"," ","u","f","f","i","c","i","a","l","i"," ","d","e","l","l","'",
      "O","r","a","t","o","r","i","o",".","\n","\n","*","*","C","o","m","a","n","d","i",
      " ","d","i","s","p","o","n","i","b","i","l","i",":","*","*","\n","/","s","t","a",
      "r","t"," ","-"," ","A","v","v","i","a"," ","i","l"," ","b","o","t","\n","/","h",
      "e","l","p"," ","-"," ","M","o","s","t","r","a"," ","q","u","e","s","t","o"," ","m",
      "e","s","s","a","g","g","i","o","\n","/","u","p","d","a","t","e","_","k","b"," ",
      "-"," ","(","A","d","m","i","n",")"," ","A","g","g","i","o","r","n","a"," ","l","a",
      " ","c","o","n","o","s","c","e","n","z","a"," ","d","e","l"," ","b","o","t">>

\* The text the model uses for the bot's username (context.bot.username).
BOT_USERNAME ==
    <<"r","u","d","y">>

-----------------------------------------------------------------------------
\* Python's str operations.

Min(a, b) == IF a < b THEN a ELSE b

\* pat in text
Contains(text, pat) ==
    \E i \in 0..(Len(text) - Len(pat)) :
        \A j \in 1..Len(pat) : text[i + j] = pat[j]

\* text[i:j] of Python (0-based, end exclusive, clamped to the length)
Slice(text, i, j) ==
    SubSeq(text, i + 1, Min(j, Len(text)))

RECURSIVE Concat(_)
\* "".join(parts)
Concat(parts) ==
    IF parts = <<>> THEN <<>> ELSE Head(parts) \o Concat(Tail(parts))

-----------------------------------------------------------------------------
\* Exceptions: a class and the text str(e) gives.  Base is the class hierarchy
\* of Python and google.genai.errors (ClientError and ServerError are APIErrors).

Base(cls) ==
    CASE cls = "ClientError"   -> "APIError"
      [] cls = "ServerError"   -> "APIError"
      [] cls = "APIError"      -> "Exception"
      [] cls = "ValueError"    -> "Exception"
      [] cls = "TelegramError" -> "Exception"
      [] cls = "Exception"     -> "BaseException"
      [] cls = "SystemExit"    -> "BaseException"
      [] OTHER                 -> "object"

RECURSIVE IsInstance(_, _)
\* isinstance(e, cls), which is what an except clause tests
IsInstance(e, cls) ==
    LET Sub(c) == IF c = cls THEN TRUE
                  ELSE IF c = "object" THEN FALSE
                  ELSE IsInstance([e EXCEPT !.cls = Base(c)], cls)
    IN Sub(e.cls)

\* quota: the hosted API answered with its rate-limit status (HTTP 429).
QuotaError == [cls |-> "ClientError", str |-> STR_QUOTA_ERROR, quota |-> TRUE]
QuotaStatusOnly == [cls |-> "ClientError", str |-> STR_QUOTA_STATUS_ONLY, quota |-> TRUE]
BadRequest == [cls |-> "ClientError", str |-> STR_BAD_REQUEST, quota |-> FALSE]
Unavailable == [cls |-> "ServerError", str |-> STR_UNAVAILABLE, quota |-> FALSE]
NotFound == [cls |-> "ValueError", str |-> STR_NOT_FOUND, quota |-> FALSE]

\* What the generative client can raise, and what the local steps can raise.
LlmErrors == {QuotaError, QuotaStatusOnly, BadRequest, Unavailable}
StepErrors == {NotFound}

-----------------------------------------------------------------------------
\* Answers of the generative client.

\* A generated text of n characters.
Answer(n) == [i \in 1..n |-> IF i % 3 = 0 THEN "b" ELSE IF i % 7 = 0 THEN "c" ELSE "a"]

AnswerLens ==
    {1, max_length - 1, max_length, max_length + 1}
      \cup {c * max_length : c \in 2..MaxChunks}
      \cup {c * max_length + 1 : c \in 2..MaxChunks}

\* The response object of the client: with a .text attribute, or without one
\* (then str(response_obj) is used).
Responses(lens) ==
    [hasText : {TRUE}, text : {Answer(n) : n \in lens}, repr : {<<"<", "r", ">">>}]
      \cup [hasText : {FALSE}, text : {<<>>}, repr : {Answer(n) : n \in lens}]

\* One run of the pipeline as its environment decides it: the step that raises
\* (or "none"), the exception it raises, and the generative client's response.
Runs(lens) ==
    [fault : {"none"}, exc : {NotFound}, resp : Responses(lens)]
      \cup [fault : {"embedder", "retriever", "prompt_template"}, exc : StepErrors,
            resp : Responses({1})]
      \cup [fault : {"llm"}, exc : LlmErrors \cup StepErrors, resp : Responses({1})]

-----------------------------------------------------------------------------
\* pipeline.py: RAGService.

\* A search that ignores its limit.
RetrieveAll(points, k) == points

\* QdrantVectorstore search with limit k: the first k points of the store.
Retrieve(points, k) == SubSeq(points, 1, Min(k, Len(points)))

\* A retriever that reads the on-disk collection whatever the service opened.
StorePointsDisk(pipe) == disk.points

\* The points of the store the service's retriever holds: the on-disk collection
\* when the service opened it at construction, else its own in-memory store,
\* which nothing ever writes to.
StorePoints(pipe) == IF pipe.client = "disk" THEN disk.points ELSE <<>>

\* RAGService.__init__
RAGServiceInit ==
    IF ~environ.GOOGLE_API_KEY
    THEN [raised |-> TRUE, exc |-> "ValueError", self |-> [ok |-> FALSE, client |-> "none"]]
    ELSE [raised |-> FALSE, exc |-> "none",
          self |-> [ok |-> TRUE, client |-> IF fs.storage THEN "disk" ELSE "memory"]]

\* self.pipeline.run({...}): the steps in order; the first that fails raises.
PipelineRun(pipe, user_input, o) ==
    IF o.fault # "none"
    THEN [raised |-> TRUE, exc |-> o.exc, llm |-> o.resp, retriever |-> <<>>]
    ELSE [raised |-> FALSE, exc |-> o.exc, llm |-> o.resp,
          retriever |-> Retrieve(StorePoints(pipe), K)]

\* response_obj.text if hasattr(response_obj, 'text') else str(response_obj)
ResponseText(response_obj) ==
    IF response_obj.hasText THEN response_obj.text ELSE response_obj.repr

\* What a call returns: a str, or a tuple (str, list).
StrValue(text) == [tuple |-> FALSE, text |-> text, sources |-> <<>>]
TupleValue(text, sources) == [tuple |-> TRUE, text |-> text, sources |-> sources]

\* the except ClientError clause
OnClientError(e, return_sources) ==
    LET msg == IF Contains(e.str, STR_429) \/ Contains(e.str, STR_RESOURCE_EXHAUSTED)
               THEN QUOTA_MSG
               ELSE API_ERROR_PREFIX \o e.str
    IN IF return_sources THEN TupleValue(msg, <<>>) ELSE StrValue(msg)

\* the except Exception clause
OnException(e, return_sources) ==
    IF return_sources THEN TupleValue(GENERIC_MSG, <<>>) ELSE StrValue(GENERIC_MSG)

\* An except clause that catches ValueError only.
CaughtSecondNarrow == "ValueError"

\* The classes the two except clauses of query catch, in order.
CaughtFirst == "ClientError"
CaughtSecond == "Exception"

\* RAGService.query
Query(pipe, user_input, return_sources, o) ==
    LET result_dict == PipelineRun(pipe, user_input, o)
        response_text == ResponseText(result_dict.llm)
    IN IF ~result_dict.raised
       THEN [raised |-> FALSE, exc |-> "none",
             value |-> IF return_sources
                       THEN TupleValue(response_text, result_dict.retriever)
                       ELSE StrValue(response_text)]
       ELSE IF IsInstance(result_dict.exc, CaughtFirst)
       THEN [raised |-> FALSE, exc |-> "none",
             value |-> OnClientError(result_dict.exc, return_sources)]
       ELSE IF IsInstance(result_dict.exc, CaughtSecond)
       THEN [raised |-> FALSE, exc |-> "none",
             value |-> OnException(result_dict.exc, return_sources)]
       ELSE [raised |-> TRUE, exc |-> result_dict.exc.cls, value |-> StrValue(<<>>)]

-----------------------------------------------------------------------------
\* ingestion.py: build_index.

\* The points one run writes: fresh ids, never those of an earlier run.
NewPoints(run, n) == [i \in 1..n |-> [run |-> run, n |-> i]]

\* How the environment decides a run of build_index: the place an exception is
\* raised ("none": nowhere) and, for a failing pipeline.run, the points it had
\* written before it failed.
IngestionFaults == {"none", "components", "create_collection", "run"}

\* A run that creates the collection anew every time.
EnsureCollectionRecreate(d) == [collection_exists |-> TRUE, points |-> <<>>]

\* if not real_client.collection_exists(...): real_client.create_collection(...)
EnsureCollection(d) ==
    IF ~d.collection_exists
    THEN [collection_exists |-> TRUE, points |-> <<>>]
    ELSE d

\* pipeline.run(file_path=files_to_ingest): upserts the new points.
Upsert(d, new) == [d EXCEPT !.points = d.points \o new]

\* A build_index that treats a missing source directory and an empty file list
\* as fatal.
BuildIndexStrict(fault, written) ==
    LET all == NewPoints(runs + 1, fs.files * ChunksPerFile)
        opened == [fs EXCEPT !.storage = TRUE]
        ensured == EnsureCollection(disk)
    IN IF ~fs.config
       THEN [exit |-> TRUE, early |-> FALSE, fs |-> fs, disk |-> disk]
       ELSE IF fault = "components"
       THEN [exit |-> TRUE, early |-> FALSE, fs |-> fs, disk |-> disk]
       ELSE IF fault = "create_collection" /\ ~disk.collection_exists
       THEN [exit |-> TRUE, early |-> FALSE, fs |-> opened, disk |-> disk]
       ELSE IF ~fs.data_dir \/ fs.files = 0
       THEN [exit |-> TRUE, early |-> FALSE, fs |-> opened, disk |-> ensured]
       ELSE IF fault = "run"
       THEN [exit |-> TRUE, early |-> FALSE, fs |-> opened,
             disk |-> Upsert(ensured, SubSeq(all, 1, Min(written, Len(all))))]
       ELSE [exit |-> FALSE, early |-> FALSE, fs |-> opened,
             disk |-> Upsert(ensured, all)]

\* build_index(): exit is sys.exit(1) (SystemExit raised to the caller);
\* otherwise it returns.  early is one of the two logged early returns.
BuildIndex(fault, written) ==
    LET all == NewPoints(runs + 1, fs.files * ChunksPerFile)
        opened == [fs EXCEPT !.storage = TRUE]
        ensured == EnsureCollection(disk)
    IN IF ~fs.config
       THEN [exit |-> TRUE, early |-> FALSE, fs |-> fs, disk |-> disk]
       ELSE IF fault = "components"
       THEN [exit |-> TRUE, early |-> FALSE, fs |-> fs, disk |-> disk]
       ELSE IF fault = "create_collection" /\ ~disk.collection_exists
       THEN [exit |-> TRUE, early |-> FALSE, fs |-> opened, disk |-> disk]
       ELSE IF ~fs.data_dir
       THEN [exit |-> FALSE, early |-> TRUE, fs |-> opened, disk |-> ensured]
       ELSE IF fs.files = 0
       THEN [exit |-> FALSE, early |-> TRUE, fs |-> opened, disk |-> ensured]
       ELSE IF fault = "run"
       THEN [exit |-> TRUE, early |-> FALSE, fs |-> opened,
             disk |-> Upsert(ensured, SubSeq(all, 1, Min(written, Len(all))))]
       ELSE [exit |-> FALSE, early |-> FALSE, fs |-> opened,
             disk |-> Upsert(ensured, all)]

-----------------------------------------------------------------------------
\* bot.py: the handlers.  A handler's platform API calls are numbered in the
\* order it makes them; bad is the set of those that raise a TelegramError.

GroupTypes == {"group", "supergroup"}

\* f"@{context.bot.username}"
Mention == <<"@">> \o BOT_USERNAME

\* A filter that asks for the mention and the reply together.
IgnoredEither(update) ==
    update.chat_type \in GroupTypes
      /\ (~(update.reply_to = "bot") \/ ~Contains(update.text, Mention))

\* The group filter of handle_message: the message is dropped.
Ignored(update) ==
    update.chat_type \in GroupTypes
      /\ (~(update.reply_to = "bot") /\ ~Contains(update.text, Mention))

\* A split that sends the full chunks only.
SplitChunksFloor(response) ==
    LET n == Len(response) \div max_length
    IN [c \in 1..n |-> Slice(response, (c - 1) * max_length, c * max_length)]

\* for i in range(0, len(response), max_length): response[i:i + max_length]
SplitChunks(response) ==
    LET n == (Len(response) + max_length - 1) \div max_length
    IN [c \in 1..n |-> Slice(response, (c - 1) * max_length, c * max_length)]

\* The texts handle_message passes to reply_text for a response, in order.
Chunks(response) ==
    IF Len(response) > max_length THEN SplitChunks(response) ELSE <<response>>

\* What a handler run did: the calls it made to the platform and to the
\* orchestrator in the order it made them (a call that raised included), the
\* typing indicators it emitted, the arguments of its orchestrator calls, the
\* response it got, the texts the platform accepted in order, and the class of
\* the exception that left the handler ("none").
Effect(calls, typing, queried, response, sent, raised) ==
    [calls |-> calls, typing |-> typing, queried |-> queried, response |-> response,
     sent |-> sent, raised |-> raised]

\* n calls of reply_text.
Replies(n) == [j \in 1..n |-> "reply_text"]

\* try: ...reply_text(chunk) for each chunk... except Exception: reply_text(error)
\* The first reply is the handler's call number first; calls are those made
\* before it.
ReplyAll(calls, typing, queried, response, texts, first, fallback, bad) ==
    LET failing == {j \in 1..Len(texts) : (first + j - 1) \in bad}
        stop == IF failing = {} THEN 0
                ELSE CHOOSE j \in failing : \A k \in failing : j <= k
    IN IF stop = 0
       THEN Effect(calls \o Replies(Len(texts)), typing, queried, response, texts, "none")
       ELSE IF (first + stop) \in bad
       THEN Effect(calls \o Replies(stop + 1), typing, queried, response,
                   SubSeq(texts, 1, stop - 1), "TelegramError")
       ELSE Effect(calls \o Replies(stop + 1), typing, queried, response,
                   Append(SubSeq(texts, 1, stop - 1), fallback), "none")

\* A handler that takes the bot's mention out of the question.
UserQueryStripped(update) ==
    LET text == update.text
        n == Len(Mention)
        at == {i \in 1..Len(text) : i + n - 1 <= Len(text) /\ SubSeq(text, i, i + n - 1) = Mention}
    IN IF at = {} THEN text
       ELSE LET i == CHOOSE j \in at : \A k \in at : j <= k
            IN SubSeq(text, 1, i - 1) \o SubSeq(text, i + n, Len(text))

\* user_query = update.message.text
UserQuery(update) == update.text

\* handle_message
HandleMessage(update, bad, o) ==
    LET user_query == UserQuery(update)
        q == Query(rag_pipeline, user_query, FALSE, o)
        typed == <<"send_chat_action">>
        asked == <<"send_chat_action", "query">>
    IN IF Ignored(update)
       THEN Effect(<<>>, 0, <<>>, <<>>, <<>>, "none")
       ELSE IF 1 \in bad
       THEN Effect(typed, 0, <<>>, <<>>, <<>>, "TelegramError")
       ELSE IF ~rag_pipeline.ok
       THEN ReplyAll(typed, 1, <<>>, NOT_INITIALIZED_MSG, Chunks(NOT_INITIALIZED_MSG), 2,
                     HANDLER_ERROR_MSG, bad)
       ELSE IF q.raised /\ IsInstance([cls |-> q.exc], "Exception")
       THEN IF 2 \in bad
            THEN Effect(asked \o Replies(1), 1, <<user_query>>, <<>>, <<>>, "TelegramError")
            ELSE Effect(asked \o Replies(1), 1, <<user_query>>, <<>>,
                        <<HANDLER_ERROR_MSG>>, "none")
       ELSE IF q.raised
       THEN Effect(asked, 1, <<user_query>>, <<>>, <<>>, q.exc)
       ELSE ReplyAll(asked, 1, <<user_query>>, q.value.text, Chunks(q.value.text), 2,
                     HANDLER_ERROR_MSG, bad)

\* update.effective_user.first_name of the model's user.
FIRST_NAME ==
    <<"A","d","a">>

\* start: one send_message, outside any try.
Start(update, bad) ==
    IF 1 \in bad
    THEN Effect(<<"send_message">>, 0, <<>>, <<>>, <<>>, "TelegramError")
    ELSE Effect(<<"send_message">>, 0, <<>>, <<>>,
                <<WELCOME_HEAD \o FIRST_NAME \o WELCOME_TAIL>>, "none")

\* help_command: one send_message, outside any try.
HelpCommand(update, bad) ==
    IF 1 \in bad
    THEN Effect(<<"send_message">>, 0, <<>>, <<>>, <<>>, "TelegramError")
    ELSE Effect(<<"send_message">>, 0, <<>>, <<>>, <<HELP_TEXT>>, "none")

\* The class except Exception catches in update_kb.
UpdateKbCaught == "Exception"

\* update_kb, given what build_index did: SystemExit is no Exception, so the
\* except clause does not catch it.
UpdateKb(update, bad, b) ==
    IF b.exit /\ IsInstance([cls |-> "SystemExit"], UpdateKbCaught)
    THEN IF 1 \in bad
         THEN Effect(<<"run_ingestion", "reply_text">>, 0, <<>>, <<>>, <<>>, "TelegramError")
         ELSE Effect(<<"run_ingestion", "reply_text">>, 0, <<>>, <<>>,
                     <<KB_FAILURE_MSG>>, "none")
    ELSE IF b.exit
    THEN Effect(<<"run_ingestion">>, 0, <<>>, <<>>, <<>>, "SystemExit")
    ELSE ReplyAll(<<"run_ingestion">>, 0, <<>>, <<>>, <<KB_SUCCESS_MSG>>, 1,
                  KB_FAILURE_MSG, bad)

-----------------------------------------------------------------------------
\* Inputs.

\* Texts of user messages: plain, mentioning the bot, and a near miss.
TEXT_PLAIN == <<"c","i","a","o">>
TEXT_MENTION == <<"c","i","a","o"," ","@","r","u","d","y","?">>
TEXT_OTHER == <<"@","r","u","d"," ","y">>

Texts == {TEXT_PLAIN, TEXT_MENTION, TEXT_OTHER}

\* A non-command text message: the chat's type, message.text, and whose message
\* it replies to ("none": it is no reply).
TextUpdates ==
    [kind : {"text"}, chat_type : {"private", "group", "supergroup"},
     text : Texts, reply_to : {"none", "bot", "user"}]

CommandUpdate(kind) ==
    [kind |-> kind, chat_type |-> "private", text |-> <<"/">>, reply_to |-> "none"]

Bads == SUBSET (1..MaxCalls)

-----------------------------------------------------------------------------
\* State.
\*   environ       the environment variables that are set
\*   fs            the files: STORAGE_DIR, CONFIG_PATH, the data directory and
\*                 the number of files under it
\*   disk          the collection of the on-disk vector store
\*   rag_pipeline  bot.py's global: ok FALSE is None
\*   phase         "init" before bot.py is loaded, "loaded" after its module
\*                 code ran, "polling" in run_polling, "exited"
\*   runs          runs of build_index so far
\*   last          the last operation: its inputs and what it did
\*   storage_at_init  whether STORAGE_DIR existed when RAGService was constructed
\*   eval          the evaluation script's run: see EvalIdle

\* evaluate_rag before it is started: its position, the dataset it loaded, its
\* own RAGService, the index of the item at hand, the scored items in order with
\* the response scored, count, the response of its last query, the number of its
\* queries, and the quota responses the item at hand has got.
EvalIdle ==
    [pc |-> "idle", dataset |-> <<>>, rag |-> [ok |-> FALSE, client |-> "none"],
     i |-> 0, scored |-> <<>>, count |-> 0, response_text |-> <<>>, queries |-> 0,
     quota |-> 0]

NoEffect == Effect(<<>>, 0, <<>>, <<>>, <<>>, "none")
NoRun == [fault |-> "none", exc |-> NotFound, resp |-> [hasText |-> TRUE, text |-> <<>>, repr |-> <<>>]]
NoBuild ==
    [fault |-> "none", exit |-> FALSE, early |-> FALSE, before |-> <<>>, handles |-> 0]

NoOp ==
    [op |-> "none", update |-> CommandUpdate("none"), bad |-> {}, run |-> NoRun,
     return_sources |-> FALSE, raised |-> FALSE, value |-> StrValue(<<>>),
     effect |-> NoEffect, logged |-> FALSE, build |-> NoBuild]

Init ==
    /\ environ \in [GOOGLE_API_KEY : BOOLEAN, TELEGRAM_TOKEN : BOOLEAN]
    /\ fs \in {f \in [storage : BOOLEAN, config : BOOLEAN, data_dir : BOOLEAN,
                      files : {0, MaxFiles}] : ~f.data_dir => f.files = 0}
    /\ disk = [collection_exists |-> FALSE, points |-> <<>>]
    /\ rag_pipeline = [ok |-> FALSE, client |-> "none"]
    /\ phase = "init"
    /\ runs = 0
    /\ last = NoOp
    /\ storage_at_init = "unset"
    /\ eval = EvalIdle

-----------------------------------------------------------------------------
\* bot.py module code (lines 41-50) and main.

\* try: rag_pipeline = RAGService() except Exception: rag_pipeline = None
ModuleInit ==
    /\ phase = "init"
    /\ rag_pipeline' = RAGServiceInit.self
    /\ phase' = "loaded"
    /\ storage_at_init' = IF fs.storage THEN "present" ELSE "absent"
    /\ last' = [NoOp EXCEPT !.op = "module", !.raised = RAGServiceInit.raised]
    /\ UNCHANGED <<eval, environ, fs, disk, runs>>

\* A main that polls without looking at the token.
MainNoTokenCheck ==
    /\ phase = "loaded"
    /\ phase' = "polling"
    /\ last' = [NoOp EXCEPT !.op = "main"]
    /\ UNCHANGED <<eval, environ, fs, disk, rag_pipeline, runs, storage_at_init>>

\* main(): without a token it returns; else it registers the handlers and polls.
Main ==
    /\ phase = "loaded"
    /\ phase' = IF ~environ.TELEGRAM_TOKEN THEN "exited" ELSE "polling"
    /\ last' = [NoOp EXCEPT !.op = "main"]
    /\ UNCHANGED <<eval, environ, fs, disk, rag_pipeline, runs, storage_at_init>>

\* The application's dispatch of one update to its handler: an Exception that
\* leaves the handler goes to error_handler, which logs it; any other
\* BaseException (SystemExit) is caught by nothing and ends run_polling.
\* rec is the record of the handler's run.
Dispatch(rec) ==
    LET e == [cls |-> rec.effect.raised]
        handled == rec.effect.raised # "none" /\ IsInstance(e, "Exception")
        fatal == rec.effect.raised # "none" /\ ~IsInstance(e, "Exception")
    IN /\ last' = [rec EXCEPT !.logged = handled]
       /\ phase' = IF fatal THEN "exited" ELSE "polling"

OnStart ==
    /\ phase = "polling"
    /\ \E bad \in SUBSET {1} :
         Dispatch([NoOp EXCEPT !.op = "start", !.update = CommandUpdate("start"),
                               !.bad = bad,
                               !.effect = Start(CommandUpdate("start"), bad)])
    /\ UNCHANGED <<eval, environ, fs, disk, rag_pipeline, runs, storage_at_init>>

OnHelp ==
    /\ phase = "polling"
    /\ \E bad \in SUBSET {1} :
         Dispatch([NoOp EXCEPT !.op = "help_command", !.update = CommandUpdate("help"),
                               !.bad = bad,
                               !.effect = HelpCommand(CommandUpdate("help"), bad)])
    /\ UNCHANGED <<eval, environ, fs, disk, rag_pipeline, runs, storage_at_init>>

\* The client handles the front end's process holds on the storage path:
\* RAGService.__init__ opens one when STORAGE_DIR exists, keeps it in
\* real_qdrant_client and never closes it.
ServiceHandles ==
    IF phase \in {"loaded", "polling"} /\ rag_pipeline.ok /\ rag_pipeline.client = "disk"
    THEN 1 ELSE 0

\* build_index gets as far as client = QdrantClient(path=storage_dir), and the
\* call returns a client.
OpensStore(fault) == fs.config /\ fault # "components"

\* The record of one run of build_index; handles counts the client handles open
\* on the storage path once build_index holds its own.
Built(fault, b) ==
    [fault |-> fault, exit |-> b.exit, early |-> b.early, before |-> disk.points,
     handles |-> IF OpensStore(fault) THEN ServiceHandles + 1 ELSE 0]

\* An /update_kb that reconnects the service to the store it has just written.
OnUpdateKbReconnect ==
    /\ phase = "polling"
    /\ runs < MaxRuns
    /\ \E bad \in SUBSET {1, 2}, fault \in IngestionFaults,
          written \in 0..MaxPartial :
         LET b == BuildIndex(fault, written)
         IN /\ (fault # "run" => written = 0)
            /\ (fault # "none" => bad = {})
            /\ fs' = b.fs
            /\ disk' = b.disk
            /\ rag_pipeline' = IF rag_pipeline.ok /\ b.fs.storage
                               THEN [rag_pipeline EXCEPT !.client = "disk"]
                               ELSE rag_pipeline
            /\ Dispatch([NoOp EXCEPT !.op = "update_kb",
                                     !.update = CommandUpdate("update_kb"),
                                     !.bad = bad, !.build = Built(fault, b),
                                     !.effect = UpdateKb(CommandUpdate("update_kb"), bad, b)])
    /\ runs' = runs + 1
    /\ UNCHANGED <<eval, environ, storage_at_init>>

\* /update_kb: run_ingestion() runs build_index in the front end's process.
OnUpdateKb ==
    /\ phase = "polling"
    /\ runs < MaxRuns
    /\ \E bad \in SUBSET {1, 2}, fault \in IngestionFaults,
          written \in 0..MaxPartial :
         LET b == BuildIndex(fault, written)
         IN /\ (fault # "run" => written = 0)
            /\ (fault # "none" => bad = {})
            /\ fs' = b.fs
            /\ disk' = b.disk
            /\ Dispatch([NoOp EXCEPT !.op = "update_kb",
                                     !.update = CommandUpdate("update_kb"),
                                     !.bad = bad, !.build = Built(fault, b),
                                     !.effect = UpdateKb(CommandUpdate("update_kb"), bad, b)])
    /\ runs' = runs + 1
    /\ UNCHANGED <<eval, environ, rag_pipeline, storage_at_init>>

\* python ingestion.py: build_index in a process of its own.
IngestionMain ==
    /\ runs < MaxRuns
    /\ \E fault \in IngestionFaults, written \in 0..MaxPartial :
         LET b == BuildIndex(fault, written)
         IN /\ (fault # "run" => written = 0)
            /\ fs' = b.fs
            /\ disk' = b.disk
            /\ last' = [NoOp EXCEPT !.op = "build_index", !.build = Built(fault, b)]
    /\ runs' = runs + 1
    /\ UNCHANGED <<eval, environ, rag_pipeline, phase, storage_at_init>>

\* A non-command text message: handle_message on one of the given inputs (the
\* update, the pipeline's run, the failing platform calls).
Text(inputs) ==
    /\ phase = "polling"
    /\ \E in \in inputs :
         Dispatch([NoOp EXCEPT !.op = "handle_message", !.update = in[1],
                               !.bad = in[3], !.run = in[2],
                               !.effect = HandleMessage(in[1], in[3], in[2])])
    /\ UNCHANGED <<eval, environ, fs, disk, rag_pipeline, runs, storage_at_init>>

ShortRuns == Runs({1})
ShortRun == [fault |-> "none", exc |-> NotFound,
              resp |-> [hasText |-> TRUE, text |-> Answer(1), repr |-> <<"<", "r", ">">>]]

PrivateUpdate ==
    [kind |-> "text", chat_type |-> "private", text |-> TEXT_PLAIN, reply_to |-> "none"]

GroupUpdate ==
    [kind |-> "text", chat_type |-> "group", text |-> TEXT_PLAIN, reply_to |-> "none"]

\* A private message and a group message that does not address the bot, with a
\* short answer and a platform failure of the first calls.
TextInputs == {PrivateUpdate, GroupUpdate} \X {ShortRun} \X SUBSET {1, 2}

OnText == Text(TextInputs)

\* A direct call of the service's query (evaluate_rag.py:63 calls it with
\* return_sources=True).
QueryCall ==
    /\ phase \in {"loaded", "polling"}
    /\ rag_pipeline.ok
    /\ \E o \in ShortRuns, return_sources \in BOOLEAN :
         LET q == Query(rag_pipeline, TEXT_PLAIN, return_sources, o)
         IN last' = [NoOp EXCEPT !.op = "query", !.run = o,
                                 !.return_sources = return_sources,
                                 !.raised = q.raised, !.value = q.value]
    /\ UNCHANGED <<eval, environ, fs, disk, rag_pipeline, phase, runs, storage_at_init>>

Next ==
    \/ ModuleInit
    \/ Main
    \/ OnStart
    \/ OnHelp
    \/ OnUpdateKb
    \/ OnText
    \/ IngestionMain
    \/ QueryCall

Spec == Init /\ [][Next]_vars

-----------------------------------------------------------------------------
\* The front end on text messages: a deployment with its bot token set, every
\* text message, and answers of the generative client around and beyond the
\* platform's message length.

LongRuns == {o \in Runs(AnswerLens) : o.fault = "none" /\ o.resp.hasText}

\* One eligible message of each chat type.
LongUpdates ==
    {PrivateUpdate,
     [kind |-> "text", chat_type |-> "group", text |-> TEXT_MENTION, reply_to |-> "none"],
     [kind |-> "text", chat_type |-> "supergroup", text |-> TEXT_PLAIN, reply_to |-> "bot"]}

\* Every message with a short answer, one message with every short run, and
\* every platform failure of one message.
AllTextInputs ==
    (TextUpdates \X {ShortRun} \X {{}})
      \cup ({PrivateUpdate} \X ShortRuns \X {{}})
      \cup ({PrivateUpdate} \X {ShortRun} \X Bads)

\* Every platform failure of one message, and each eligible message with no
\* failure, with each long answer.
LongInputs ==
    ({PrivateUpdate} \X LongRuns \X Bads) \cup (LongUpdates \X LongRuns \X {{}})

OnAnyText == Text(AllTextInputs)

OnLongText == Text(LongInputs)

InitText ==
    /\ Init
    /\ environ.TELEGRAM_TOKEN
    /\ fs.config /\ fs.data_dir /\ fs.files = MaxFiles

NextText ==
    \/ ModuleInit
    \/ Main
    \/ OnAnyText
    \/ OnLongText

SpecText == InitText /\ [][NextText]_vars

-----------------------------------------------------------------------------
\* tests/evaluation/evaluate_rag.py: the evaluation script, a process of its own
\* with its own RAGService on the same environment and storage.

\* "Quota exceeded" and "429" of the script's quota check.
EVAL_QUOTA_EXCEEDED == <<"Q","u","o","t","a"," ","e","x","c","e","e","d","e","d">>
EVAL_429 == <<"4","2","9">>

\* A check that looks for the pipeline's message only.
IsQuotaResponseMessageOnly(response_text) ==
    Contains(response_text, EVAL_QUOTA_EXCEEDED)

\* "Quota exceeded" in response_text or "429" in response_text
IsQuotaResponse(response_text) ==
    Contains(response_text, EVAL_QUOTA_EXCEEDED) \/ Contains(response_text, EVAL_429)

\* item["question"] of the dataset's item j.
Question(j) == TEXT_PLAIN \o [k \in 1..j |-> "?"]

\* json.load(f) of a dataset of n items.
Dataset(n) == [j \in 1..n |-> Question(j)]

\* An answer of the generative client that has the digits 429 in it.
ANSWER_WITH_429 == <<"t","e","l"," ","0","7","8","4","2","9">>

\* The runs of the pipeline under evaluation: an answer, an answer with 429 in
\* it, a quota error and another error of the generative client, and a failing
\* retriever.
AnswerRun429 ==
    [fault |-> "none", exc |-> NotFound,
     resp |-> [hasText |-> TRUE, text |-> ANSWER_WITH_429, repr |-> <<"<", "r", ">">>]]
QuotaRun == [fault |-> "llm", exc |-> QuotaError, resp |-> ShortRun.resp]
EvalRuns ==
    {ShortRun, AnswerRun429, QuotaRun,
     [fault |-> "llm", exc |-> BadRequest, resp |-> ShortRun.resp],
     [fault |-> "retriever", exc |-> NotFound, resp |-> ShortRun.resp]}

\* The runs that stop coming once the quota has reset.
QuotaRuns == {AnswerRun429, QuotaRun}

\* evaluate_rag up to the loop: the dataset file may be missing, and RAGService()
\* may raise; both return.
EvalStart ==
    /\ eval.pc = "idle"
    /\ \E exists \in BOOLEAN, n \in 0..MaxItems :
         /\ (~exists => n = 0)
         /\ eval' = IF ~exists
                    THEN [eval EXCEPT !.pc = "returned"]
                    ELSE IF RAGServiceInit.raised
                    THEN [eval EXCEPT !.pc = "returned", !.dataset = Dataset(n)]
                    ELSE [eval EXCEPT !.pc = "loop", !.dataset = Dataset(n),
                                      !.rag = RAGServiceInit.self]
    /\ UNCHANGED <<environ, fs, disk, rag_pipeline, phase, runs, last, storage_at_init>>

\* One pass of the while True loop for the item at hand: a quota response
\* sleeps and continues with the same question; any other response, and an
\* exception out of query, breaks, and the item is scored and the for loop moves
\* on.
EvalQuery ==
    /\ eval.pc = "loop"
    /\ eval.i < Len(eval.dataset)
    /\ \E o \in EvalRuns :
         LET question == eval.dataset[eval.i + 1]
             q == Query(eval.rag, question, TRUE, o)
             response_text == IF q.raised THEN <<>> ELSE q.value.text
             asked == [eval EXCEPT !.queries = @ + 1, !.response_text = response_text]
         IN /\ (o \in QuotaRuns => eval.quota < MaxQuota)
            /\ eval' =
                 IF q.raised /\ ~IsInstance([cls |-> q.exc], "Exception")
                 THEN [asked EXCEPT !.pc = "raised"]
                 ELSE IF ~q.raised /\ IsQuotaResponse(response_text)
                 THEN [asked EXCEPT !.quota = Min(@ + 1, MaxQuota)]
                 ELSE [asked EXCEPT !.i = @ + 1, !.count = @ + 1, !.quota = 0,
                                    !.scored = Append(@, [item |-> eval.i + 1,
                                                          response_text |-> response_text])]
    /\ UNCHANGED <<environ, fs, disk, rag_pipeline, phase, runs, last, storage_at_init>>

\* The for loop is exhausted: the averages are logged (or, with count 0, the
\* function returns).
EvalFinish ==
    /\ eval.pc = "loop"
    /\ eval.i = Len(eval.dataset)
    /\ eval' = [eval EXCEPT !.pc = "done"]
    /\ UNCHANGED <<environ, fs, disk, rag_pipeline, phase, runs, last, storage_at_init>>

\* The evaluation script alone.  A started script keeps running: nothing but
\* its own sleeps holds it up.
NextEval ==
    \/ EvalStart
    \/ EvalQuery
    \/ EvalFinish

\* The evaluation is run on a checkout with the ingestion job's configuration
\* and source files, with or without the API key and the storage path; the bot
\* token plays no part in it.
InitEval ==
    /\ Init
    /\ ~environ.TELEGRAM_TOKEN
    /\ fs.config
    /\ fs.data_dir
    /\ fs.files = MaxFiles

SpecEval ==
    InitEval /\ [][NextEval]_vars /\ WF_vars(EvalQuery) /\ WF_vars(EvalFinish)

-----------------------------------------------------------------------------
\* Properties.

HandlerOps == {"start", "help_command", "update_kb", "handle_message"}

IsPrefix(s, t) == Len(s) <= Len(t) /\ SubSeq(t, 1, Len(s)) = s

\* The text of the generative client's response of a run.
Generated(o) == IF o.resp.hasText THEN o.resp.text ELSE o.resp.repr

\* C1: query never raises.  Whatever step of the pipeline raises whatever
\* exception, the call returns a value, and that value carries a non-empty
\* answer text.
C1_QueryNeverRaises ==
    last.op = "query" =>
        /\ ~last.raised
        /\ (last.run.fault # "none" => Len(last.value.text) > 0)

\* A query whose generative client raised a server error returned normally.
C1_Witness ==
    /\ last.op = "query"
    /\ last.run.fault = "llm"
    /\ last.run.exc = Unavailable
    /\ ~last.raised

\* C2: on failure the answer text is one of the two fixed messages, the quota
\* message exactly when the generative client raised a rate-limit error, and it
\* holds no text of the exception.
C2_FailureTextIsFixed ==
    (last.op = "query" /\ last.run.fault # "none") =>
        /\ last.value.text \in {QUOTA_MSG, GENERIC_MSG}
        /\ (last.value.text = QUOTA_MSG <=> (last.run.fault = "llm" /\ last.run.exc.quota))
        /\ ~Contains(last.value.text, last.run.exc.str)

\* C3: when the platform accepts every call, an answer longer than 4096
\* characters is sent as ceil(len/4096) replies in order, each of at most 4096
\* characters, whose concatenation is the answer.
C3_LongAnswerIsSplit ==
    (last.op = "handle_message" /\ last.bad = {}
       /\ Len(last.effect.response) > 4096) =>
        LET sent == last.effect.sent
            n == Len(sent)
        IN /\ n * 4096 >= Len(last.effect.response)
           /\ (n - 1) * 4096 < Len(last.effect.response)
           /\ \A i \in 1..n : Len(sent[i]) <= 4096
           /\ Concat(sent) = last.effect.response
           /\ last.effect.response = Generated(last.run)

\* An answer of two full messages and one character went out as three replies.
C3_Witness ==
    /\ last.op = "handle_message"
    /\ last.bad = {}
    /\ Len(last.effect.response) = 2 * 4096 + 1
    /\ Len(last.effect.sent) = 3
    /\ Len(last.effect.sent[3]) = 1

\* C4: in a group or supergroup a text message is answered if and only if it
\* holds @<bot username> or replies to a message of the bot.  One that does
\* neither gets no reply, no typing indicator and no orchestrator call; one
\* that does gets (when the platform accepts every call) one typing indicator,
\* one orchestrator call when the pipeline is initialised, and a reply.
C4_GroupFilter ==
    (last.op = "handle_message" /\ last.update.chat_type \in {"group", "supergroup"}) =>
        LET addressed == \/ Contains(last.update.text, <<"@">> \o BOT_USERNAME)
                         \/ last.update.reply_to = "bot"
        IN /\ ~addressed =>
                /\ last.effect.sent = <<>>
                /\ last.effect.typing = 0
                /\ last.effect.queried = <<>>
                /\ last.effect.raised = "none"
           /\ (addressed /\ last.bad = {}) =>
                /\ last.effect.typing = 1
                /\ Len(last.effect.sent) >= 1
                /\ Len(last.effect.queried) = (IF rag_pipeline.ok THEN 1 ELSE 0)

\* A group message that mentions the bot, replying to nobody, was answered.
C4_Witness ==
    /\ last.op = "handle_message"
    /\ last.update.chat_type = "group"
    /\ last.update.reply_to = "none"
    /\ last.update.text = TEXT_MENTION
    /\ last.bad = {}
    /\ Len(last.effect.queried) = 1
    /\ Len(last.effect.sent) = 1

\* C5: /update_kb runs the ingestion job once and then, when the platform
\* accepts the call, reports with exactly one reply: the success message when
\* the job completed, the failure message when it failed.
C5_UpdateKbReportsOutcome ==
    (last.op = "update_kb" /\ last.bad = {}) =>
        /\ Len(last.effect.sent) = 1
        /\ (last.build.exit => last.effect.sent[1] = KB_FAILURE_MSG)
        /\ (~last.build.exit => last.effect.sent[1] = KB_SUCCESS_MSG)

\* C6: no failure in a handler ends the front end's event loop: once polling,
\* the front end is polling after every step.
C6_LoopKeepsServing == [][phase = "polling" => phase' = "polling"]_vars

C8_ReturnShape ==
    last.op = "query" =>
        /\ ~last.raised
        /\ last.value.tuple = last.return_sources
        /\ last.run.fault = "none" =>
             /\ Len(last.value.sources) <= 5
             /\ last.value.text = Generated(last.run)
             /\ Len(last.value.text) > 0
             /\ (last.return_sources /\ rag_pipeline.client = "disk") =>
                  IsPrefix(last.value.sources, disk.points)
        /\ last.run.fault # "none" => last.value.sources = <<>>

\* A query with sources on a collection of more than 5 points returned 5.
C8_Witness ==
    /\ last.op = "query"
    /\ last.return_sources
    /\ last.run.fault = "none"
    /\ Len(disk.points) > 5
    /\ Len(last.value.sources) = 5

\* C9: a run of build_index with its configuration present and no failing
\* component returns (it neither raises nor exits), and no run, failing or
\* not, removes or replaces an entry of the collection or the collection.
C9_AppendOnly ==
    [][runs' = runs + 1 =>
         /\ IsPrefix(disk.points, disk'.points)
         /\ (disk.collection_exists => disk'.collection_exists)
         /\ (fs.config /\ last'.build.fault = "none") => ~last'.build.exit]_vars

\* A second run on the same directory returned with the first run's entries
\* in place before its own.
C9_Witness ==
    /\ runs = 2
    /\ last.op \in {"build_index", "update_kb"}
    /\ ~last.build.exit /\ ~last.build.early
    /\ last.build.before # <<>>
    /\ IsPrefix(last.build.before, disk.points)
    /\ \E i \in 1..Len(disk.points) : disk.points[i].run = 1
    /\ \E i \in 1..Len(disk.points) : disk.points[i].run = 2

\* C10 as stated: with the bot token or the API key missing the front end
\* never polls and never serves an update.
C10_MissingCredentialIsFatal ==
    (~environ.TELEGRAM_TOKEN \/ ~environ.GOOGLE_API_KEY) =>
        (phase # "polling" /\ last.op \notin HandlerOps)

\* C10 as amended: a missing bot token is fatal (main returns, the front end
\* never polls nor serves an update); a missing API key is not: the pipeline
\* is None, and every text message the front end answers gets the fixed
\* "not initialised" notice with no orchestrator call.
C10_TokenFatalKeyDegrades ==
    /\ ~environ.TELEGRAM_TOKEN => (phase # "polling" /\ last.op \notin HandlerOps)
    /\ (~environ.GOOGLE_API_KEY /\ phase # "init") => ~rag_pipeline.ok
    /\ (~environ.GOOGLE_API_KEY /\ last.op = "handle_message"
          /\ last.effect.typing = 1 /\ last.bad = {}) =>
         /\ last.effect.queried = <<>>
         /\ last.effect.sent = <<NOT_INITIALIZED_MSG>>

\* Without an API key the front end polled and answered a message with the
\* notice.
C10_Witness ==
    /\ ~environ.GOOGLE_API_KEY
    /\ environ.TELEGRAM_TOKEN
    /\ phase = "polling"
    /\ last.op = "handle_message"
    /\ last.effect.sent = <<NOT_INITIALIZED_MSG>>

\* C11: a run of build_index that finds no source directory, or no file under
\* it, returns to its caller: it neither raises nor exits, and it writes no
\* point to the collection.  (The run gets as far as looking for the directory:
\* its configuration is present and its components initialise.)
C11_EarlyReturn ==
    [][(runs' = runs + 1 /\ fs.config /\ (~fs.data_dir \/ fs.files = 0)
          /\ last'.build.fault \in {"none", "run"}) =>
         /\ ~last'.build.exit
         /\ last'.build.early
         /\ disk'.points = disk.points
         /\ (last'.op = "update_kb" => phase' = "polling")]_vars

\* /update_kb on a deployment whose source directory does not exist came back
\* with nothing written and the front end still polling.
C11_Witness ==
    /\ last.op = "update_kb"
    /\ ~fs.data_dir
    /\ last.build.early
    /\ ~last.build.exit
    /\ disk.points = last.build.before
    /\ phase = "polling"

\* C12: at most one client handle is open on the storage path at any moment:
\* whenever build_index opens the store, the front end's service holds no handle
\* on it.
C12_SingleHandle == last.build.handles <= 1

\* The messages the front end answers: any message of a private chat, and in a
\* group a reply to the bot or a message that mentions it.
Eligible(update) ==
    \/ update.chat_type = "private"
    \/ update.reply_to = "bot"
    \/ Contains(update.text, Mention)

\* C13: on an eligible text message, with the pipeline initialised and the
\* platform accepting every call, handle_message emits the typing indicator
\* first, then calls query once with message.text as it came, then only
\* replies; an answer of at most 4096 characters is sent in one reply that is
\* exactly the answer.
C13_TypingQueryReply ==
    (last.op = "handle_message" /\ rag_pipeline.ok /\ Eligible(last.update)
       /\ last.bad = {}) =>
      LET e == last.effect
          answer == Query(rag_pipeline, last.update.text, FALSE, last.run).value.text
      IN /\ e.raised = "none"
         /\ Len(e.calls) >= 3
         /\ e.calls[1] = "send_chat_action"
         /\ e.calls[2] = "query"
         /\ \A j \in 3..Len(e.calls) : e.calls[j] = "reply_text"
         /\ e.typing = 1
         /\ e.queried = <<last.update.text>>
         /\ e.response = answer
         /\ (Len(answer) <= max_length =>
               (Len(e.calls) = 3 /\ e.sent = <<answer>>))

\* A group message that mentions the bot was answered in one reply.
C13_Witness ==
    /\ last.op = "handle_message"
    /\ rag_pipeline.ok
    /\ last.update.chat_type = "group"
    /\ last.update.reply_to = "none"
    /\ last.update.text = TEXT_MENTION
    /\ last.bad = {}
    /\ last.effect.calls = <<"send_chat_action", "query", "reply_text">>
    /\ last.effect.queried = <<TEXT_MENTION>>
    /\ last.effect.sent = <<Generated(last.run)>>
    /\ last.effect.sent[1] # <<>>

\* C15: the store a constructed service retrieves from never changes: no step
\* (a query, a text message, an ingestion by /update_kb or from the command
\* line) alters the service's client once it is constructed; a service
\* constructed while STORAGE_DIR was absent holds its in-memory store and no
\* on-disk handle, and what it retrieves stays empty whatever an ingestion has
\* written to disk since.
C15_ClientFixed ==
    [][/\ (rag_pipeline.ok => rag_pipeline' = rag_pipeline)
       /\ ((rag_pipeline'.ok /\ storage_at_init' = "absent") =>
             (rag_pipeline'.client = "memory" /\ ServiceHandles' = 0))
       /\ ((last'.op = "query" /\ storage_at_init' = "absent"
              /\ last'.run.fault = "none") =>
             last'.value.sources = <<>>)]_vars

\* /update_kb filled the on-disk collection under a service that was constructed
\* before the storage path existed; the service still holds its in-memory store.
C15_Witness ==
    /\ last.op = "update_kb"
    /\ ~last.build.exit
    /\ last.build.before = <<>>
    /\ disk.points # <<>>
    /\ fs.storage
    /\ storage_at_init = "absent"
    /\ rag_pipeline.ok
    /\ rag_pipeline.client = "memory"

\* C14: evaluate_rag takes the items in order and asks the question of the item
\* at hand again for as long as the response has "Quota exceeded" or "429" in
\* it: a step that gets such a response leaves the item index, the scores and
\* count alone; the index only ever moves to the next item, with a response that
\* is no quota response, and scores that item then.  Once the quota responses to
\* a question stop, the script ends with every item scored once, in order.
C14_RetryUntilAnswered ==
    /\ [][eval'.queries # eval.queries =>
            LET text == eval'.response_text
                isQuota == Contains(text, <<"Q","u","o","t","a"," ","e","x","c","e","e","d","e","d">>)
                             \/ Contains(text, <<"4","2","9">>)
            IN /\ eval'.queries = eval.queries + 1
               /\ isQuota =>
                    /\ eval'.i = eval.i
                    /\ eval'.scored = eval.scored
                    /\ eval'.count = eval.count
                    /\ eval'.pc = "loop"
               /\ ~isQuota =>
                    /\ eval'.i = eval.i + 1
                    /\ eval'.count = eval.count + 1
                    /\ eval'.scored =
                         Append(eval.scored, [item |-> eval.i + 1, response_text |-> text])]_vars
    /\ [][eval'.queries = eval.queries =>
            (eval'.i = eval.i /\ eval'.scored = eval.scored /\ eval'.count = eval.count)]_vars
    /\ [](eval.pc = "done" =>
            /\ eval.i = Len(eval.dataset)
            /\ eval.count = Len(eval.dataset)
            /\ Len(eval.scored) = Len(eval.dataset)
            /\ \A j \in 1..Len(eval.scored) : eval.scored[j].item = j)
    /\ (eval.pc = "loop" ~> eval.pc = "done")

\* The script ended after it had asked one of its questions again on a quota
\* response: more queries than items, every item scored.
C14_Witness ==
    /\ eval.pc = "done"
    /\ Len(eval.dataset) = MaxItems
    /\ eval.count = MaxItems
    /\ eval.queries > MaxItems

====
